---- MODULE Spec2Model ----
(***************************************************************************)
(* Model of internal/aws/aws.go: the credential variants, the profile      *)
(* accessor of CredsFileCredential and ProcessCredential.MarshalJSON.      *)
(*                                                                         *)
(* A Go string is a sequence of characters; a character is a one-letter    *)
(* TLA+ string, except the two tokens below.  A JSON document ([]byte) is  *)
(* a sequence of the same characters.  A Go pointer is a sequence of       *)
(* length at most one: <<>> is nil, <<v>> points to v.                     *)
(***************************************************************************)
EXTENDS Integers, Sequences, FiniteSets, TLC

\* a byte that is not valid UTF-8 on its own (0xFF)
xFF == "xFF"
\* the rune U+FFFD (valid UTF-8: EF BF BD), written raw
uFFFD == "uFFFD"

nil == <<>>

(***************************************************************************)
(* Bounds of the model.                                                    *)
(***************************************************************************)
MaxVersion == 1

----------------------------------------------------------------------------
(***************************************************************************)
(* strconv / time helpers used by Format and by the JSON encoder.          *)
(***************************************************************************)
Digits == <<"0", "1", "2", "3", "4", "5", "6", "7", "8", "9">>

RECURSIVE FormatBits(_)
FormatBits(n) ==
    IF n < 10 THEN <<Digits[n + 1]>>
    ELSE FormatBits(n \div 10) \o <<Digits[(n % 10) + 1]>>

\* strconv.AppendInt(b, v, 10), the encoder's intEncoder
FormatInt(n) == IF n < 0 THEN <<"-">> \o FormatBits(-n) ELSE FormatBits(n)

RECURSIVE ZeroPad(_, _)
ZeroPad(s, w) == IF Len(s) >= w THEN s ELSE ZeroPad(<<"0">> \o s, w)

\* time.appendInt(b, x, width): zero-padded to at least width digits
appendInt(x, width) ==
    IF x < 0 THEN <<"-">> \o ZeroPad(FormatBits(-x), width)
    ELSE ZeroPad(FormatBits(x), width)

RECURSIVE TrimZeros(_)
TrimZeros(s) ==
    IF s = <<>> THEN s
    ELSE IF s[Len(s)] = "0" THEN TrimZeros(SubSeq(s, 1, Len(s) - 1))
    ELSE s

\* the "Z07:00" element of a layout; offset in seconds east of UTC
FormatZone(offset) ==
    LET zone == IF offset < 0 THEN -((-offset) \div 60) ELSE offset \div 60
        abs  == IF zone < 0 THEN -zone ELSE zone
    IN  IF offset = 0 THEN <<"Z">>
        ELSE <<IF zone < 0 THEN "-" ELSE "+">>
             \o appendInt(abs \div 60, 2) \o <<":">> \o appendInt(abs % 60, 2)

FormatDateTime(t) ==
    appendInt(t.year, 4) \o <<"-">> \o appendInt(t.month, 2) \o <<"-">>
    \o appendInt(t.day, 2) \o <<"T">> \o appendInt(t.hour, 2) \o <<":">>
    \o appendInt(t.min, 2) \o <<":">> \o appendInt(t.sec, 2)

\* t.Format("2006-01-02T15:04:05.999999999Z07:00")
FormatRFC3339Nano(t) ==
    LET frac == TrimZeros(ZeroPad(FormatBits(t.nsec), 9))
    IN  FormatDateTime(t)
        \o (IF frac = <<>> THEN <<>> ELSE <<".">> \o frac)
        \o FormatZone(t.offset)

\* t.Format(time.RFC3339), layout "2006-01-02T15:04:05Z07:00"
FormatRFC3339(t) == FormatDateTime(t) \o FormatZone(t.offset)

----------------------------------------------------------------------------
(***************************************************************************)
(* The credential types.                                                   *)
(***************************************************************************)
\* JSON key names of the struct tags of ProcessCredential
kAccessKeyId == <<"A", "c", "c", "e", "s", "s", "K", "e", "y", "I", "d">>
kSecretAccessKey == <<"S", "e", "c", "r", "e", "t", "A", "c", "c", "e", "s", "s", "K", "e", "y">>
kSessionToken == <<"S", "e", "s", "s", "i", "o", "n", "T", "o", "k", "e", "n">>
kExpiration == <<"E", "x", "p", "i", "r", "a", "t", "i", "o", "n">>
kVersion == <<"V", "e", "r", "s", "i", "o", "n">>

\* the zero value ProcessCredential{}
ZeroProcessCredential ==
    [AccessKeyID |-> <<>>, SecretAccessKey |-> <<>>, SessionToken |-> <<>>,
     Expiration |-> nil, Version |-> 0]

----------------------------------------------------------------------------
(***************************************************************************)
(* encoding/json, encoder side, as json.Marshal(obj) uses it.              *)
(***************************************************************************)
\* one character of a string value, as appendString(escapeHTML = true) writes it
EncodeChar(ch) ==
    CASE ch = "\"" -> <<"\\", "\"">>
      [] ch = "\\" -> <<"\\", "\\">>
      [] ch = "<"  -> <<"\\", "u", "0", "0", "3", "c">>
      [] ch = ">"  -> <<"\\", "u", "0", "0", "3", "e">>
      [] ch = "&"  -> <<"\\", "u", "0", "0", "2", "6">>
      [] ch = xFF  -> <<"\\", "u", "f", "f", "f", "d">>
      [] OTHER     -> <<ch>>

RECURSIVE EncodeChars(_)
EncodeChars(s) ==
    IF s = <<>> THEN <<>> ELSE EncodeChar(Head(s)) \o EncodeChars(Tail(s))

\* stringEncoder: a quoted JSON string
EncodeString(s) == <<"\"">> \o EncodeChars(s) \o <<"\"">>

\* time.Time.MarshalJSON: [data, err]
TimeMarshalJSON(t) ==
    IF t.year < 0 \/ t.year >= 10000
    THEN [data |-> <<>>, err |-> "Time.MarshalJSON: year outside of range [0,9999]"]
    ELSE [data |-> <<"\"">> \o FormatRFC3339Nano(t) \o <<"\"">>, err |-> "nil"]

\* isEmptyValue, for the kinds the struct holds
isEmptyValue(f) ==
    CASE f.kind = "string"  -> f.val = <<>>
      [] f.kind = "int"     -> f.val = 0
      [] f.kind = "ptrTime" -> f.val = nil

\* the encoder of one field value: [data, err]
EncodeValue(f) ==
    CASE f.kind = "string"  -> [data |-> EncodeString(f.val), err |-> "nil"]
      [] f.kind = "int"     -> [data |-> FormatInt(f.val), err |-> "nil"]
      [] f.kind = "ptrTime" ->
            IF f.val = nil
            THEN [data |-> <<"n", "u", "l", "l">>, err |-> "nil"]
            ELSE TimeMarshalJSON(f.val[1])

\* lexicographic order of field index sequences (byIndex)
RECURSIVE IndexLess(_, _)
IndexLess(a, b) ==
    IF a = <<>> THEN b /= <<>>
    ELSE IF b = <<>> THEN FALSE
    ELSE IF Head(a) /= Head(b) THEN Head(a) < Head(b)
    ELSE IndexLess(Tail(a), Tail(b))

\* AliasFields with the omitempty option missing from the Version tag
AliasFields_VersionNotOmitted(c) ==
    << [name |-> kAccessKeyId, index |-> <<0, 0>>, tagged |-> TRUE,
        omitEmpty |-> TRUE, kind |-> "string", val |-> c.AccessKeyID],
       [name |-> kSecretAccessKey, index |-> <<0, 1>>, tagged |-> TRUE,
        omitEmpty |-> TRUE, kind |-> "string", val |-> c.SecretAccessKey],
       [name |-> kSessionToken, index |-> <<0, 2>>, tagged |-> TRUE,
        omitEmpty |-> TRUE, kind |-> "string", val |-> c.SessionToken],
       [name |-> kExpiration, index |-> <<0, 3>>, tagged |-> TRUE,
        omitEmpty |-> TRUE, kind |-> "ptrTime", val |-> c.Expiration],
       [name |-> kVersion, index |-> <<0, 4>>, tagged |-> TRUE,
        omitEmpty |-> FALSE, kind |-> "int", val |-> c.Version] >>

\* The fields of ProcessCredential with their json tags, as json sees them
\* promoted from the embedded *Alias (field 0 of the anonymous struct).
AliasFields(c) ==
    << [name |-> kAccessKeyId, index |-> <<0, 0>>, tagged |-> TRUE,
        omitEmpty |-> TRUE, kind |-> "string", val |-> c.AccessKeyID],
       [name |-> kSecretAccessKey, index |-> <<0, 1>>, tagged |-> TRUE,
        omitEmpty |-> TRUE, kind |-> "string", val |-> c.SecretAccessKey],
       [name |-> kSessionToken, index |-> <<0, 2>>, tagged |-> TRUE,
        omitEmpty |-> TRUE, kind |-> "string", val |-> c.SessionToken],
       [name |-> kExpiration, index |-> <<0, 3>>, tagged |-> TRUE,
        omitEmpty |-> TRUE, kind |-> "ptrTime", val |-> c.Expiration],
       [name |-> kVersion, index |-> <<0, 4>>, tagged |-> TRUE,
        omitEmpty |-> TRUE, kind |-> "int", val |-> c.Version] >>

\* ObjFields with the shadow field tagged json:"expiration"
ObjFields_ShadowRenamed(obj) ==
    AliasFields(obj.Alias)
    \o << [name |-> <<"e">> \o Tail(kExpiration), index |-> <<1>>, tagged |-> TRUE,
           omitEmpty |-> FALSE, kind |-> "string", val |-> obj.Expiration] >>

\* The fields json sees in the anonymous struct { *Alias; Expiration string },
\* in the order typeFields visits them: the promoted fields of the embedded
\* *Alias and the struct's own Expiration string `json:"Expiration"`.
ObjFields(obj) ==
    AliasFields(obj.Alias)
    \o << [name |-> kExpiration, index |-> <<1>>, tagged |-> TRUE,
           omitEmpty |-> FALSE, kind |-> "string", val |-> obj.Expiration] >>

\* dominantField: of the fields sharing a JSON name, the one at the least
\* depth wins; several at that depth: the only tagged one, or none at all.
\* The result is the set of positions in fs of the fields that are encoded.
DominantFields(fs) ==
    LET same(i)  == {j \in DOMAIN fs : fs[j].name = fs[i].name}
        depth(i) == Len(fs[i].index)
        top(i)   == {j \in same(i) : \A k \in same(i) : depth(j) <= depth(k)}
        tagd(i)  == {j \in top(i) : fs[j].tagged}
    IN  {i \in DOMAIN fs :
            /\ i \in top(i)
            /\ \/ Cardinality(top(i)) = 1
               \/ Cardinality(top(i)) > 1 /\ fs[i].tagged /\ Cardinality(tagd(i)) = 1}

\* the dominant fields sorted by index (sort.Sort(byIndex(fields)))
RECURSIVE SortByIndex(_, _)
SortByIndex(fs, S) ==
    IF S = {} THEN <<>>
    ELSE LET m == CHOOSE i \in S : \A j \in S \ {i} : IndexLess(fs[i].index, fs[j].index)
         IN  <<fs[m]>> \o SortByIndex(fs, S \ {m})

typeFields(fs) == SortByIndex(fs, DominantFields(fs))

\* structEncoder over the fields from position i on; first: no member written yet
RECURSIVE EncodeMembers(_, _, _)
EncodeMembers(fs, i, first) ==
    IF i > Len(fs) THEN [data |-> <<>>, err |-> "nil"]
    ELSE IF fs[i].omitEmpty /\ isEmptyValue(fs[i]) THEN EncodeMembers(fs, i + 1, first)
    ELSE LET v    == EncodeValue(fs[i])
             rest == EncodeMembers(fs, i + 1, FALSE)
         IN  IF v.err /= "nil" THEN [data |-> <<>>, err |-> v.err]
             ELSE IF rest.err /= "nil" THEN rest
             ELSE [data |-> (IF first THEN <<>> ELSE <<",">>)
                            \o EncodeString(fs[i].name) \o <<":">> \o v.data
                            \o rest.data,
                   err |-> "nil"]

\* json.Marshal of a struct with the fields fs: [data, err]; an encoder error
\* leaves no data
EncodeStruct(fs) ==
    LET m == EncodeMembers(typeFields(fs), 1, TRUE)
    IN  IF m.err /= "nil" THEN [data |-> <<>>, err |-> m.err]
        ELSE [data |-> <<"{">> \o m.data \o <<"}">>, err |-> "nil"]

\* json.Marshal(obj)
jsonMarshal(obj) == EncodeStruct(ObjFields(obj))

----------------------------------------------------------------------------
(***************************************************************************)
(* ProcessCredential.MarshalJSON                                           *)
(***************************************************************************)
\* MarshalJSON formatting with time.RFC3339Nano
MarshalJSON_Nano(c) ==
    LET exp == IF c.Expiration /= nil THEN FormatRFC3339Nano(c.Expiration[1]) ELSE <<>>
        obj == [Alias |-> c, Expiration |-> IF exp /= <<>> THEN exp ELSE <<>>]
    IN  jsonMarshal(obj)

\* MarshalJSON without the shadow struct: json.Marshal((*Alias)(c))
MarshalJSON_NoShadow(c) == EncodeStruct(AliasFields(c))

MarshalJSON(c) ==
    LET exp == IF c.Expiration /= nil THEN FormatRFC3339(c.Expiration[1]) ELSE <<>>
        obj == [Alias |-> c, Expiration |-> IF exp /= <<>> THEN exp ELSE <<>>]
    IN  jsonMarshal(obj)

----------------------------------------------------------------------------
(***************************************************************************)
(* time.Time.UnmarshalJSON, which json.Unmarshal calls for the             *)
(* Expiration *time.Time field of ProcessCredential.                       *)
(***************************************************************************)
\* the zero time.Time: January 1, year 1, 00:00:00 UTC
ZeroTime ==
    [year |-> 1, month |-> 1, day |-> 1, hour |-> 0, min |-> 0, sec |-> 0,
     nsec |-> 0, offset |-> 0]

isDigit(ch) == \E d \in DOMAIN Digits : Digits[d] = ch

DigitVal(ch) == (CHOOSE d \in DOMAIN Digits : Digits[d] = ch) - 1

\* the digits s[i .. j] as a number, -1 if one of them is no digit
RECURSIVE parseUint(_, _, _)
parseUint(s, i, j) ==
    IF j < i THEN 0
    ELSE IF ~isDigit(s[j]) THEN -1
    ELSE LET hi == parseUint(s, i, j - 1)
         IN  IF hi < 0 THEN -1 ELSE hi * 10 + DigitVal(s[j])

InRange(x, lo, hi) == lo <= x /\ x <= hi

isLeap(year) == year % 4 = 0 /\ (year % 100 /= 0 \/ year % 400 = 0)

daysIn(month, year) ==
    IF month = 2 THEN (IF isLeap(year) THEN 29 ELSE 28)
    ELSE IF month \in {4, 6, 9, 11} THEN 30 ELSE 31

\* the end of the run of digits of s that starts at position n
RECURSIVE DigitsEnd(_, _)
DigitsEnd(s, n) ==
    IF n <= Len(s) /\ isDigit(s[n]) THEN DigitsEnd(s, n + 1) ELSE n - 1

\* parseNanoseconds: the digits s[i .. j] of a fraction, as nanoseconds
RECURSIVE Scale(_, _)
Scale(x, k) == IF k <= 0 THEN x ELSE Scale(x * 10, k - 1)

parseNanoseconds(s, i, j) ==
    LET last == IF j - i + 1 > 9 THEN i + 8 ELSE j
    IN  Scale(parseUint(s, i, last), 9 - (last - i + 1))

\* parseRFC3339 with the checks of parseStrictRFC3339: <<t>>, or nil on failure
parseStrictRFC3339(s) ==
    IF Len(s) < 19 THEN nil
    ELSE
    LET year  == parseUint(s, 1, 4)
        month == parseUint(s, 6, 7)
        day   == parseUint(s, 9, 10)
        hour  == parseUint(s, 12, 13)
        min   == parseUint(s, 15, 16)
        sec   == parseUint(s, 18, 19)
        okDT  == /\ InRange(year, 0, 9999) /\ InRange(month, 1, 12)
                 /\ InRange(day, 1, daysIn(month, year))
                 /\ InRange(hour, 0, 23) /\ InRange(min, 0, 59)
                 /\ InRange(sec, 0, 59)
                 /\ s[5] = "-" /\ s[8] = "-" /\ s[11] = "T"
                 /\ s[14] = ":" /\ s[17] = ":"
        hasFr == Len(s) >= 21 /\ s[20] = "." /\ isDigit(s[21])
        frEnd == IF hasFr THEN DigitsEnd(s, 21) ELSE 19
        nsec  == IF hasFr THEN parseNanoseconds(s, 21, frEnd) ELSE 0
        z     == SubSeq(s, frEnd + 1, Len(s))
        hr    == parseUint(z, 2, 3)
        mm    == parseUint(z, 5, 6)
        okZ   == /\ Len(z) = 6 /\ InRange(hr, 0, 23) /\ InRange(mm, 0, 59)
                 /\ z[1] \in {"-", "+"} /\ z[4] = ":"
        off   == IF z[1] = "-" THEN -((hr * 60 + mm) * 60) ELSE (hr * 60 + mm) * 60
        mk(o) == [year |-> year, month |-> month, day |-> day, hour |-> hour,
                  min |-> min, sec |-> sec, nsec |-> nsec, offset |-> o]
    IN  IF ~okDT THEN nil
        ELSE IF z = <<"Z">> THEN <<mk(0)>>
        ELSE IF okZ THEN <<mk(off)>>
        ELSE nil

\* (*Time).UnmarshalJSON(data) for a literal other than null: [t, err];
\* on failure *t is assigned the zero Time
TimeUnmarshalJSON(data) ==
    IF Len(data) < 2 \/ data[1] /= "\"" \/ data[Len(data)] /= "\""
    THEN [t |-> ZeroTime, err |-> "Time.UnmarshalJSON: input is not a JSON string"]
    ELSE LET p == parseStrictRFC3339(SubSeq(data, 2, Len(data) - 1))
         IN  IF p = nil THEN [t |-> ZeroTime, err |-> "parsing time: cannot parse"]
             ELSE [t |-> p[1], err |-> "nil"]

----------------------------------------------------------------------------
(***************************************************************************)
(* encoding/json, decoder side: json.Unmarshal(data, &ProcessCredential{}) *)
(* for documents that are one flat object without white space, the shape   *)
(* MarshalJSON writes.  ProcessCredential has no UnmarshalJSON, so the     *)
(* decoder goes by the struct's fields and tags.                           *)
(***************************************************************************)
\* position of the quote that closes the string whose content starts at j; 0: none
RECURSIVE EndOfString(_, _)
EndOfString(data, j) ==
    IF j > Len(data) THEN 0
    ELSE IF data[j] = "\"" THEN j
    ELSE IF data[j] = "\\" THEN EndOfString(data, j + 2)
    ELSE EndOfString(data, j + 1)

\* position of the last character of the bare literal (number, null) starting at j
RECURSIVE EndOfLiteral(_, _)
EndOfLiteral(data, j) ==
    IF j > Len(data) \/ data[j] \in {",", "}"} THEN j - 1
    ELSE EndOfLiteral(data, j + 1)

\* the rune a \uXXXX escape stands for
HexRune(h) ==
    CASE h = <<"0", "0", "3", "c">> -> "<"
      [] h = <<"0", "0", "3", "e">> -> ">"
      [] h = <<"0", "0", "2", "6">> -> "&"
      [] h = <<"f", "f", "f", "d">> -> uFFFD
      [] OTHER -> "u+"

\* unquote: the string a literal's content stands for; invalid UTF-8 in the
\* input is replaced by U+FFFD
RECURSIVE unquote(_)
unquote(s) ==
    IF s = <<>> THEN <<>>
    ELSE IF Head(s) = "\\" /\ Len(s) >= 6 /\ s[2] = "u"
         THEN <<HexRune(SubSeq(s, 3, 6))>> \o unquote(SubSeq(s, 7, Len(s)))
    ELSE IF Head(s) = "\\" /\ Len(s) >= 2
         THEN <<s[2]>> \o unquote(SubSeq(s, 3, Len(s)))
    ELSE IF Head(s) = xFF THEN <<uFFFD>> \o unquote(Tail(s))
    ELSE <<Head(s)>> \o unquote(Tail(s))

\* a bare literal that is a JSON integer
isIntLiteral(lit) ==
    LET d == IF lit /= <<>> /\ lit[1] = "-" THEN Tail(lit) ELSE lit
    IN  /\ d /= <<>>
        /\ \A i \in DOMAIN d : isDigit(d[i])
        /\ (Len(d) > 1 => d[1] /= "0")

IntOfLiteral(lit) ==
    IF lit[1] = "-" THEN -parseUint(lit, 2, Len(lit)) ELSE parseUint(lit, 1, Len(lit))

jsonNull == <<"n", "u", "l", "l">>

\* the members of the object from position i (a key's opening quote) on:
\* [ok, members], each member [key, lit], lit the value's literal as written
RECURSIVE ScanMembers(_, _)
ScanMembers(data, i) ==
    LET bad  == [ok |-> FALSE, members |-> <<>>]
        kEnd == EndOfString(data, i + 1)
        v    == kEnd + 2
        vEnd == IF data[v] = "\"" THEN EndOfString(data, v + 1)
                ELSE EndOfLiteral(data, v)
        lit  == SubSeq(data, v, vEnd)
        m    == [key |-> unquote(SubSeq(data, i + 1, kEnd - 1)), lit |-> lit]
        rest == ScanMembers(data, vEnd + 2)
    IN  IF i > Len(data) \/ data[i] /= "\"" \/ kEnd = 0 THEN bad
        ELSE IF v > Len(data) \/ data[kEnd + 1] /= ":" THEN bad
        ELSE IF vEnd < v \/ vEnd >= Len(data) THEN bad
        ELSE IF data[v] /= "\"" /\ ~isIntLiteral(lit) /\ lit /= jsonNull THEN bad
        ELSE IF data[vEnd + 1] = "}"
             THEN (IF vEnd + 1 = Len(data) THEN [ok |-> TRUE, members |-> <<m>>] ELSE bad)
        ELSE IF data[vEnd + 1] = ","
             THEN (IF rest.ok THEN [ok |-> TRUE, members |-> <<m>> \o rest.members]
                   ELSE bad)
        ELSE bad

\* checkValid and the scan of the object: [ok, members]
ScanObject(data) ==
    IF Len(data) < 2 \/ data[1] /= "{" THEN [ok |-> FALSE, members |-> <<>>]
    ELSE IF data = <<"{", "}">> THEN [ok |-> TRUE, members |-> <<>>]
    ELSE ScanMembers(data, 2)

\* literalStore of one member into the struct: [v, err, abort].  A literal of
\* the wrong type is an UnmarshalTypeError that is saved while decoding goes
\* on; an error of time.Time's UnmarshalJSON ends the decoding.
StoreMember(v, m) ==
    LET isStr  == m.lit[1] = "\""
        str    == unquote(SubSeq(m.lit, 2, Len(m.lit) - 1))
        tyErr  == [v |-> v, err |-> "UnmarshalTypeError", abort |-> FALSE]
        ok(w)  == [v |-> w, err |-> "nil", abort |-> FALSE]
        string(f) == IF m.lit = jsonNull THEN ok(v)
                     ELSE IF isStr THEN ok([v EXCEPT ![f] = str])
                     ELSE tyErr
        tm     == TimeUnmarshalJSON(m.lit)
    IN  CASE m.key = kAccessKeyId     -> string("AccessKeyID")
          [] m.key = kSecretAccessKey -> string("SecretAccessKey")
          [] m.key = kSessionToken    -> string("SessionToken")
          [] m.key = kVersion ->
                IF m.lit = jsonNull THEN ok(v)
                ELSE IF isStr THEN tyErr
                ELSE ok([v EXCEPT !.Version = IntOfLiteral(m.lit)])
          [] m.key = kExpiration ->
                IF m.lit = jsonNull THEN ok([v EXCEPT !.Expiration = nil])
                ELSE [v |-> [v EXCEPT !.Expiration = <<tm.t>>], err |-> tm.err,
                      abort |-> tm.err /= "nil"]
          [] OTHER -> ok(v)

\* the members from position i on stored into v; err keeps the first error
RECURSIVE StoreMembers(_, _, _, _)
StoreMembers(v, ms, i, err) ==
    IF i > Len(ms) THEN [v |-> v, err |-> err]
    ELSE LET r == StoreMember(v, ms[i])
             e == IF err = "nil" THEN r.err ELSE err
         IN  IF r.abort THEN [v |-> r.v, err |-> r.err]
             ELSE StoreMembers(r.v, ms, i + 1, e)

\* json.Unmarshal(data, &v) with v the zero ProcessCredential: [v, err]
jsonUnmarshal(data) ==
    LET o == ScanObject(data)
    IN  IF ~o.ok THEN [v |-> ZeroProcessCredential, err |-> "SyntaxError"]
        ELSE StoreMembers(ZeroProcessCredential, o.members, 1, "nil")

----------------------------------------------------------------------------
(***************************************************************************)
(* The other methods of the variants.                                      *)
(***************************************************************************)
EnvVarCredential_IsCredential(e) == TRUE

CredsFileCredential_IsCredential(c) == TRUE

\* IsCredential telling whether an access key is there
ProcessCredential_IsCredential_HasKey(c) == c.AccessKeyID /= <<>>

ProcessCredential_IsCredential(c) == TRUE

NoopCredential_IsCredential(n) == TRUE

\* SetProfile that sets the profile once: a later call does not replace it
SetProfile_Once(c, p) == IF c.profile = <<>> THEN [c EXCEPT !.profile = p] ELSE c

\* SetProfile as *c = CredsFileCredential{profile: p}
SetProfile_Reset(c, p) ==
    [AccessKeyID |-> <<>>, SecretAccessKey |-> <<>>, SessionToken |-> <<>>,
     profile |-> p]

\* func (c *CredsFileCredential) SetProfile(p string): the receiver afterwards
SetProfile(c, p) == [c EXCEPT !.profile = p]

\* func (c CredsFileCredential) Profile() string
Profile(c) == c.profile

----------------------------------------------------------------------------
(***************************************************************************)
(* The values a collaborator can hand to this layer.                       *)
(***************************************************************************)
AccessKeyIDs == {<<>>, <<"a", "\"", "<">>}

SecretAccessKeys == {<<>>, <<"s", "\\">>}

SessionTokens == {<<>>, <<"t">>, <<xFF>>}

Versions == (0 .. MaxVersion) \cup {-12}

Profiles == {<<>>, <<"x">>, <<"y">>}

Date(y, mo, d, h, mi, s, ns, off) ==
    [year |-> y, month |-> mo, day |-> d, hour |-> h, min |-> mi, sec |-> s,
     nsec |-> ns, offset |-> off]

T20230601 == Date(2023, 6, 1, 0, 0, 0, 0, 0)

Times ==
    {T20230601,
     Date(2023, 1, 2, 15, 4, 5, 500000000, 19800),
     Date(987, 12, 31, 23, 59, 59, 0, -28800),
     Date(10000, 1, 1, 0, 0, 0, 0, 0)}

Expirations == {nil} \cup {<<t>> : t \in Times}

\* the value of a call's result before the call was made
NoResult == [called |-> FALSE, data |-> <<>>, err |-> "nil"]

----------------------------------------------------------------------------
(***************************************************************************)
(* State.                                                                  *)
(*   env, cf, proc  one value of each variant with fields (NoopCredential  *)
(*                  has none), projected from one CredentialContainer      *)
(*   out            the result of the last MarshalJSON call on proc ("c")  *)
(*                  and on the decoded value ("d")                         *)
(*   dec, decErr    the value json.Unmarshal decoded out["c"].data into    *)
(*                  (nil before that), and its error                       *)
(*   ret            the last call of another method and what it returned   *)
(*   lastSet        nil, or <<p>> for the latest SetProfile(p)             *)
(***************************************************************************)
VARIABLES env, cf, proc, out, dec, decErr, ret, lastSet

vars == <<env, cf, proc, out, dec, decErr, ret, lastSet>>

Init ==
    \E ak \in AccessKeyIDs, sk \in SecretAccessKeys, st \in SessionTokens,
       ex \in Expirations, ver \in Versions :
        /\ env = [AccessKeyID |-> ak, SecretAccessKey |-> sk, SessionToken |-> st]
        /\ cf = [AccessKeyID |-> ak, SecretAccessKey |-> sk, SessionToken |-> st,
                 profile |-> <<>>]
        /\ proc = [AccessKeyID |-> ak, SecretAccessKey |-> sk, SessionToken |-> st,
                   Expiration |-> ex, Version |-> ver]
        /\ out = [r \in {"c", "d"} |-> NoResult]
        /\ dec = nil
        /\ decErr = "nil"
        /\ ret = [op |-> "none", recv |-> "none", val |-> <<>>]
        /\ lastSet = nil

CallSetProfile ==
    \E p \in Profiles :
        /\ cf' = SetProfile(cf, p)
        /\ lastSet' = <<p>>
        /\ ret' = [op |-> "SetProfile", recv |-> "cf", val |-> <<>>]
        /\ UNCHANGED <<env, proc, out, dec, decErr>>

CallProfile ==
    /\ ret' = [op |-> "Profile", recv |-> "cf", val |-> Profile(cf)]
    /\ UNCHANGED <<env, cf, proc, out, dec, decErr, lastSet>>

EnvIsCredential ==
    /\ ret' = [op |-> "IsCredential", recv |-> "env",
               val |-> EnvVarCredential_IsCredential(env)]
    /\ UNCHANGED <<env, cf, proc, out, dec, decErr, lastSet>>

CredsFileIsCredential ==
    /\ ret' = [op |-> "IsCredential", recv |-> "cf",
               val |-> CredsFileCredential_IsCredential(cf)]
    /\ UNCHANGED <<env, cf, proc, out, dec, decErr, lastSet>>

ProcessIsCredential ==
    /\ ret' = [op |-> "IsCredential", recv |-> "proc",
               val |-> ProcessCredential_IsCredential(proc)]
    /\ UNCHANGED <<env, cf, proc, out, dec, decErr, lastSet>>

NoopIsCredential ==
    /\ ret' = [op |-> "IsCredential", recv |-> "noop",
               val |-> NoopCredential_IsCredential(<<>>)]
    /\ UNCHANGED <<env, cf, proc, out, dec, decErr, lastSet>>

\* json.Marshal(&proc), which calls proc.MarshalJSON()
CallMarshalJSON ==
    /\ out' = [out EXCEPT !["c"] = [called |-> TRUE] @@ MarshalJSON(proc)]
    /\ UNCHANGED <<env, cf, proc, dec, decErr, ret, lastSet>>

\* json.Unmarshal of the document produced for proc into a new ProcessCredential
CallUnmarshal ==
    /\ out["c"].called /\ out["c"].err = "nil"
    /\ dec = nil
    /\ LET r == jsonUnmarshal(out["c"].data)
       IN  dec' = <<r.v>> /\ decErr' = r.err
    /\ UNCHANGED <<env, cf, proc, out, ret, lastSet>>

\* MarshalJSON of the decoded value
CallMarshalDecoded ==
    /\ dec /= nil
    /\ out' = [out EXCEPT !["d"] = [called |-> TRUE] @@ MarshalJSON(dec[1])]
    /\ UNCHANGED <<env, cf, proc, dec, decErr, ret, lastSet>>

Next ==
    \/ CallSetProfile
    \/ CallProfile
    \/ EnvIsCredential
    \/ CredsFileIsCredential
    \/ ProcessIsCredential
    \/ NoopIsCredential
    \/ CallMarshalJSON
    \/ CallUnmarshal
    \/ CallMarshalDecoded

Spec == Init /\ [][Next]_vars

----------------------------------------------------------------------------
(***************************************************************************)
(* Reading a produced document, for the properties below.                  *)
(***************************************************************************)
Receivers == {r \in {"c", "d"} : out[r].called}

\* the value MarshalJSON was called on
Recv(r) == IF r = "c" THEN proc ELSE dec[1]

Members(data) == ScanObject(data).members

KeyCount(data, k) ==
    LET ms == Members(data)
    IN  Cardinality({i \in DOMAIN ms : ms[i].key = k})

\* the literal written under key k (the first one, if there are several)
Lit(data, k) ==
    LET ms == Members(data)
        i  == CHOOSE i \in DOMAIN ms :
                  ms[i].key = k /\ \A j \in DOMAIN ms : ms[j].key = k => i <= j
    IN  ms[i].lit

isStringLit(lit) == Len(lit) >= 2 /\ lit[1] = "\"" /\ lit[Len(lit)] = "\""

\* the string a string literal stands for
StringOf(lit) == unquote(SubSeq(lit, 2, Len(lit) - 1))

StringFields ==
    { <<"AccessKeyID", kAccessKeyId>>, <<"SecretAccessKey", kSecretAccessKey>>,
      <<"SessionToken", kSessionToken>> }

\* s with every byte that is not valid UTF-8 replaced by U+FFFD
ToValidUTF8(s) == [i \in DOMAIN s |-> IF s[i] = xFF THEN uFFFD ELSE s[i]]

AllEmpty(c) ==
    /\ c.AccessKeyID = <<>> /\ c.SecretAccessKey = <<>> /\ c.SessionToken = <<>>
    /\ c.Version = 0 /\ c.Expiration = nil

----------------------------------------------------------------------------
\* C1: when Expiration is nil, the document MarshalJSON produces has no
\* "Expiration" key, whatever the other fields are.
C1_NoExpirationKeyWhenNil ==
    \A r \in Receivers :
        Recv(r).Expiration = nil => KeyCount(out[r].data, kExpiration) = 0

\* C2: when Expiration is set to t, the document has exactly one "Expiration"
\* key, its value is a string, and that string is the RFC 3339 form of t with
\* second precision: it is what Format(time.RFC3339) gives, it has no
\* fraction, it reads back as t cut to whole seconds, and for
\* 2023-06-01T00:00:00Z it is exactly that text.
C2_ExpirationIsRFC3339 ==
    \A r \in Receivers :
        Recv(r).Expiration /= nil =>
            LET t == Recv(r).Expiration[1]
                d == out[r].data
            IN  /\ KeyCount(d, kExpiration) = 1
                /\ isStringLit(Lit(d, kExpiration))
                /\ LET s == StringOf(Lit(d, kExpiration))
                   IN  /\ s = FormatRFC3339(t)
                       /\ \A i \in DOMAIN s : s[i] /= "."
                       /\ (t.year \in 0 .. 9999 =>
                              parseStrictRFC3339(s) = <<[t EXCEPT !.nsec = 0]>>)
                       /\ (t = T20230601 => s = <<"2", "0", "2", "3", "-", "0", "6", "-", "0", "1", "T", "0", "0", ":", "0", "0", ":", "0", "0", "Z">>)

C2_Witness ==
    /\ out["c"].called
    /\ proc.Expiration = <<T20230601>>
    /\ proc.AccessKeyID /= <<>>
    /\ KeyCount(out["c"].data, kExpiration) = 1

\* The presence rule of C3 for the receiver r, with norm(s) the string the
\* key must carry for the field value s.
KeysFollowFields(r, norm(_)) ==
    LET c == Recv(r)
        d == out[r].data
    IN  /\ \A f \in StringFields :
            /\ KeyCount(d, f[2]) = (IF c[f[1]] /= <<>> THEN 1 ELSE 0)
            /\ c[f[1]] /= <<>> =>
                  /\ isStringLit(Lit(d, f[2]))
                  /\ StringOf(Lit(d, f[2])) = norm(c[f[1]])
        /\ KeyCount(d, kVersion) = (IF c.Version /= 0 THEN 1 ELSE 0)
        /\ c.Version /= 0 =>
              /\ isIntLiteral(Lit(d, kVersion))
              /\ IntOfLiteral(Lit(d, kVersion)) = c.Version
        /\ c.Version = 1 => Lit(d, kVersion) = <<"1">>

Same(s) == s

\* C3 as stated: each of AccessKeyId, SecretAccessKey, SessionToken and Version
\* is in the document iff its field is non-empty (non-zero), and then carries
\* exactly the field's value.
C3_KeysCarryExactValue == \A r \in Receivers : KeysFollowFields(r, Same)

\* C3 as amended: each of the four keys is in the document iff its field is
\* non-empty (non-zero); Version carries the field's value, and a string key
\* carries the field's value with every byte that is not valid UTF-8 replaced
\* by U+FFFD, hence exactly the field's value when that is valid UTF-8.
C3_KeysCarryValidUTF8Value == \A r \in Receivers : KeysFollowFields(r, ToValidUTF8)

C3_Witness ==
    /\ out["c"].called
    /\ proc.Version = 1
    /\ proc.AccessKeyID = <<"a", "\"", "<">>
    /\ proc.SecretAccessKey = <<>>
    /\ proc.SessionToken = <<xFF>>
    /\ KeyCount(out["c"].data, kSessionToken) = 1
    /\ KeyCount(out["c"].data, kSecretAccessKey) = 0

\* C4: for the credential with every string empty, Version 0 and no
\* expiration, MarshalJSON produces exactly {}.
C4_AllEmptyGivesEmptyObject ==
    \A r \in Receivers : AllEmpty(Recv(r)) => out[r].data = <<"{", "}">>

\* C5: decoding the document MarshalJSON produced succeeds, the decoded value
\* has an expiration exactly when the original has one, and encoding the
\* decoded value again gives the same bytes.
C5_RoundTrip ==
    dec /= nil =>
        /\ decErr = "nil"
        /\ (dec[1].Expiration /= nil) <=> (proc.Expiration /= nil)
        /\ out["d"].called => out["d"].data = out["c"].data

\* C6: the profile is the argument of the latest SetProfile call and the empty
\* string before any call, and that is what Profile() returns; no name is
\* rejected, the empty one included.
C6_ProfileIsLastSet ==
    LET want == IF lastSet = nil THEN <<>> ELSE lastSet[1]
    IN  /\ Profile(cf) = want
        /\ ret.op = "Profile" => ret.val = want

C6_Witness ==
    /\ lastSet = << <<"y">> >>
    /\ ret.op = "Profile"
    /\ ret.val = <<"y">>

\* C7: IsCredential() returns true for each of the four variants, whatever
\* the fields are and whether or not SetProfile was called.
C7_IsCredentialTrue == ret.op = "IsCredential" => ret.val = TRUE

C7_Witness ==
    /\ ret.op = "IsCredential"
    /\ ret.recv = "proc"
    /\ AllEmpty(proc)
    /\ lastSet /= nil

\* C8: MarshalJSON returns a JSON document and a nil error for every
\* ProcessCredential, the ones whose Expiration time.Time's own MarshalJSON
\* refuses (year 10000) included.
C8_MarshalNeverFails ==
    \A r \in Receivers :
        /\ out[r].err = "nil"
        /\ ScanObject(out[r].data).ok

C8_Witness ==
    /\ out["c"].called
    /\ proc.Expiration /= nil
    /\ proc.Expiration[1].year = 10000
    /\ TimeMarshalJSON(proc.Expiration[1]).err /= "nil"
    /\ out["c"].err = "nil"

\* C9: an "Expiration" key is written at most once, and its value is a JSON
\* string: the shadow field's, never null and never the encoding
\* time.Time.MarshalJSON gives the embedded field where the two differ.
C9_ExpirationIsShadowString ==
    \A r \in Receivers :
        LET d == out[r].data
            e == Recv(r).Expiration
        IN  /\ KeyCount(d, kExpiration) <= 1
            /\ KeyCount(d, kExpiration) = 1 =>
                  /\ isStringLit(Lit(d, kExpiration))
                  /\ Lit(d, kExpiration) /= jsonNull
                  /\ (e /= nil /\ e[1].nsec /= 0) =>
                        Lit(d, kExpiration) /= TimeMarshalJSON(e[1]).data

C9_Witness ==
    /\ out["c"].called
    /\ proc.Expiration /= nil
    /\ proc.Expiration[1].nsec /= 0
    /\ KeyCount(out["c"].data, kExpiration) = 1

\* C10: no step changes a field of env or proc or a public field of cf; the
\* profile of cf changes only in a SetProfile call; and a second MarshalJSON
\* call on the same value returns what the first returned.
C10_Frame ==
    [][ /\ env' = env
        /\ proc' = proc
        /\ cf' = [cf EXCEPT !.profile = cf'.profile]
        /\ (cf'.profile /= cf.profile => ret'.op = "SetProfile")
        /\ (out["c"].called => out'["c"] = out["c"])
        /\ (out["d"].called => out'["d"] = out["d"]) ]_vars

C10_Witness ==
    /\ lastSet = << <<"x">> >>
    /\ cf.profile = <<"x">>
    /\ cf.AccessKeyID /= <<>>
    /\ out["c"].called
    /\ ret.op = "Profile"

====
